---------------------------- MODULE Spec2Model ----------------------------
(***************************************************************************)
(* State-machine model of the PostHog Customer.io plugin, storage-based    *)
(* variant (src/index.ts lines 1-263): setupPlugin, exportEvents,          *)
(* syncCustomerMetadata, shouldCustomerBeTracked, exportSingleEvent and    *)
(* callCustomerIoApi; and of fetchWithRetry of the earlier versions        *)
(* (src/index.js).                                                         *)
(*                                                                         *)
(* Every await of the source is a scheduling point, so each async function *)
(* is cut into one action per awaited effect: a storage.get, a storage.set,*)
(* the arrival of an HTTP response.  The code between two awaits runs      *)
(* atomically (single-threaded event loop) and is part of the action that  *)
(* precedes it.                                                            *)
(***************************************************************************)
EXTENDS Naturals, Sequences, FiniteSets, TLC

(***************************************************************************)
(* Bounds of the model                                                     *)
(***************************************************************************)

\* Largest number of events the host delivers in one exportEvents batch.
MaxBatch == 2

\* Largest number of fetch attempts of one fetchWithRetry call that the model
\* follows.
MaxAttempts == 3

\* Largest number of create calls per customer that the observer counts.
MaxCreates == 2

(***************************************************************************)
(* Program constants                                                       *)
(***************************************************************************)

\* const DEFAULT_SEND_EVENTS_FROM_ANONYMOUS_USERS
DEFAULT_SEND_EVENTS_FROM_ANONYMOUS_USERS == "Send all events"

\* enum EventsConfig
SEND_ALL == "1"
SEND_EMAILS == "2"
SEND_IDENTIFIED == "3"

\* A property that was never assigned (JavaScript undefined).
Undefined == "undefined"

\* const EVENTS_CONFIG_MAP, applied to a label: a label that is no key of the
\* map yields undefined.
EVENTS_CONFIG_MAP(label) ==
    CASE label = "Send all events" -> SEND_ALL
      [] label = "Only send events from users with emails" -> SEND_EMAILS
      [] label = "Only send events from users that have been identified" -> SEND_IDENTIFIED
      [] OTHER -> Undefined

(***************************************************************************)
(* Inputs: configurations, events, HTTP outcomes                           *)
(***************************************************************************)

\* Site ID / token pairs the host may configure.
Credentials == {"site1:tokenA", "site2:tokenB"}

\* Buffer.from(`${siteId}:${token}`).toString('base64'), prefixed by "Basic ":
\* an injective encoding of the credential pair.
AuthorizationHeaderOf(cred) == <<"Basic", cred>>

AuthorizationHeaders == {AuthorizationHeaderOf(c) : c \in Credentials}

\* config.eventsToSend after split(','): the comma-separated parts, an empty
\* part written "".  <<>> stands for an absent or empty eventsToSend.
EventsToSendParts ==
    { <<>>, <<"$create_alias", "", "purchase">> }

\* config.sendEventsFromAnonymousUsers; "" stands for an absent value, and
\* "Send no events" for a text that is none of the three labels (the host
\* does not enforce the TypeScript union at run time).
PolicyLabels ==
    { "",
      "Only send events from users with emails",
      "Only send events from users that have been identified",
      "Send no events" }

\* The configuration object the host passes.  identifyByEmail stands for an
\* "identify by email" option set by the user: the config interface of lines
\* 10-19 declares no such key and no line of the plugin reads it.
Configs ==
    [ credentials : Credentials,
      eventsToSend : EventsToSendParts,
      sendEventsFromAnonymousUsers : PolicyLabels,
      identifyByEmail : BOOLEAN ]

EventNamesUniverse == {"$identify", "$create_alias", "purchase"}

\* Two customers: one whose distinct_id is itself an email address, one
\* whose distinct_id is not.
DistinctIds == {"u@x.io", "u1"}

\* A JavaScript object: a function from its keys to their values (every
\* value written as text; true and false as "true" and "false").
EmptyObject == <<>>

\* event.$set: undefined, or an object whose email key holds the given text
\* ("" for an object without email key) and whose other keys are `others`.
SetObjects ==
    { [defined |-> FALSE, email |-> "", others |-> EmptyObject],
      [defined |-> TRUE, email |-> "not-an-email", others |-> EmptyObject],
      [defined |-> TRUE, email |-> "a@b.com", others |-> EmptyObject] }

\* event.properties: undefined, or an object.
NoProperties == [defined |-> FALSE, obj |-> EmptyObject]

\* event.timestamp of the events whose payloads are not examined.
SomeTimestamp == "1970-01-01T00:16:40Z"

\* The events the host delivers: every name and every $set for the first
\* customer, and one plain event of the second customer.
Events ==
    [ event : EventNamesUniverse, distinct_id : {"u@x.io"}, set : SetObjects,
      properties : {NoProperties}, timestamp : {SomeTimestamp} ]
    \cup [ event : {"purchase"}, distinct_id : {"u1"},
           set : {[defined |-> TRUE, email |-> "not-an-email",
                   others |-> EmptyObject]},
           properties : {NoProperties}, timestamp : {SomeTimestamp} ]

\* The events whose request bodies are examined: page, screen and plain
\* events of both customers, with a $set that is absent, carries a valid or
\* an invalid email, and has keys named like the plugin's own; properties
\* absent, empty, plain, and carrying $set and $set_once; with and without
\* timestamp.
PayloadSetObjects ==
    { [defined |-> FALSE, email |-> "", others |-> EmptyObject],
      [defined |-> TRUE, email |-> "a@b.com", others |-> ("plan" :> "pro")],
      [defined |-> TRUE, email |-> "not-an-email",
       others |-> ("_update" :> "true") @@ ("identifier" :> "other")],
      [defined |-> TRUE, email |-> "",
       others |-> ("plan" :> "pro") @@ ("_update" :> "false")
                      @@ ("identifier" :> "other")] }

PayloadProperties ==
    { NoProperties,
      [defined |-> TRUE, obj |-> EmptyObject],
      [defined |-> TRUE, obj |-> ("url" :> "/x")],
      [defined |-> TRUE,
       obj |-> ("url" :> "/x") @@ ("$set" :> "{email}") @@ ("$set_once" :> "{plan}")] }

PayloadEvents ==
    [ event : {"$pageview", "$screen", "purchase"},
      distinct_id : DistinctIds,
      set : PayloadSetObjects,
      properties : PayloadProperties,
      timestamp : {Undefined, SomeTimestamp} ]

\* Date.now(): the clock readings of this model, in milliseconds.
NowValues == {2000000, 2000500}

Flags == {"seen", "identified", "with_email"}

\* What node-fetch can produce for one request: the promise rejects
\* (transport failure), or it resolves with a status and a body that
\* response.json() can or cannot parse.
FetchOutcomes ==
    { [rejects |-> TRUE, status |-> 0, jsonBody |-> FALSE] }
    \cup [ rejects : {FALSE},
           status : {200, 400, 401, 403, 408, 429, 503},
           jsonBody : BOOLEAN ]

(***************************************************************************)
(* State                                                                   *)
(***************************************************************************)

VARIABLES
    config,        \* the plugin configuration the host passes in meta.config
    global,        \* meta.global: authorizationHeader, eventNames, eventsConfig
    verified,      \* storage: the authorization headers stored with value true
    customerStatus,\* storage: customer-status/<distinct_id> -> set of flags
    setup,         \* progress and result of the current setupPlugin call
    succeeded,     \* history: headers a completed setupPlugin call succeeded with
    phase,         \* progress of the current exportEvents call
    exportError,   \* what the current exportEvents call threw
    slots,         \* per event of the batch: progress of its async tasks
    fetchCall,     \* src/index.js: progress of the current fetchWithRetry call
    history,       \* observer: what was ever stored, created and upserted
    cacheRun       \* src/index.js: the cache, the clock and the current exportToCustomerio call

vars == <<config, global, verified, customerStatus, setup, succeeded, phase, exportError, slots, fetchCall, history, cacheRun>>

(***************************************************************************)
(* callCustomerIoApi                                                       *)
(***************************************************************************)

\* Math.floor(response.status / 100)
responseStatusClass(status) == status \div 100

\* `await response.json()` of the three error branches: when the body is not
\* JSON the promise rejects with the parser's error (node-fetch's FetchError
\* 'invalid-json', an Error that is no RetryError), which propagates in place
\* of the branch's own error.
ThrowAfterJson(outcome, error) ==
    IF outcome.jsonBody THEN error ELSE "BodyParseError"

\* The result of callCustomerIoApi for one fetch outcome: "response" when it
\* returns the response, otherwise the kind of error it throws.
callCustomerIoApi(outcome) ==
    IF outcome.rejects THEN "RetryError"
    ELSE IF outcome.status = 401 \/ outcome.status = 403
         THEN ThrowAfterJson(outcome, "Error")
    ELSE IF outcome.status = 408 \/ outcome.status = 429
              \/ responseStatusClass(outcome.status) = 5
         THEN ThrowAfterJson(outcome, "RetryError")
    ELSE IF responseStatusClass(outcome.status) # 2
         THEN ThrowAfterJson(outcome, "Error")
    ELSE "response"

\* The results callCustomerIoApi can have, over everything fetch can produce.
ApiResults == {callCustomerIoApi(outcome) : outcome \in FetchOutcomes}

(***************************************************************************)
(* setupPlugin                                                             *)
(***************************************************************************)

\* config.eventsToSend ? config.eventsToSend.split(',').filter(Boolean) : []
filterBoolean(parts) == SelectSeq(parts, LAMBDA p : p # "")

\* The globals setupPlugin assigns before its first await (lines 91-97).
GlobalOf(cfg) ==
    [ authorizationHeader |-> AuthorizationHeaderOf(cfg.credentials),
      hasEventNames |-> TRUE,
      eventNames |-> filterBoolean(cfg.eventsToSend),
      eventsConfig |->
          EVENTS_CONFIG_MAP(
              IF cfg.sendEventsFromAnonymousUsers # ""
              THEN cfg.sendEventsFromAnonymousUsers
              ELSE DEFAULT_SEND_EVENTS_FROM_ANONYMOUS_USERS) ]

\* meta.global of a fresh plugin instance: nothing assigned yet.
EmptyGlobal ==
    [ authorizationHeader |-> <<>>,
      hasEventNames |-> FALSE,
      eventNames |-> <<>>,
      eventsConfig |-> Undefined ]

\* Faulty variant: the stored marker is never honoured.
credentialsNeverVerified(header) == FALSE

\* await storage.get(global.authorizationHeader, false)
credentialsVerifiedPreviously(header) == header \in verified

NoOutcome == [rejects |-> FALSE, status |-> 0, jsonBody |-> FALSE]

\* No setupPlugin call yet.  Besides the call's state, the record keeps what
\* the call did, for as long as `fresh` holds: whether the marker was stored
\* when it started, whether an earlier call had succeeded with the same
\* header, whether it retries a call that had just failed, how many GETs it
\* issued, what fetch produced, what it threw.
NoSetup ==
    [ state |-> "none", fresh |-> FALSE, markerStored |-> FALSE,
      priorSuccess |-> FALSE, retry |-> FALSE, gets |-> 0,
      outcome |-> NoOutcome, error |-> "none" ]

\* Faulty variant: the marker is stored whatever the check's result.
VerifiedAfterCheckAlways(stored, header, result) == stored \cup {header}

\* The stored markers once callCustomerIoApi('GET', ...) has settled: line
\* 108 runs only when line 107 did not throw.
VerifiedAfterCheck(stored, header, result) ==
    IF result = "response" THEN stored \cup {header} ELSE stored

\* setupPlugin up to its first network await: assigns the globals, reads the
\* stored marker, and either returns (fast path) or issues the GET.
SetupStart ==
    /\ setup.state \in {"none", "failed"}
    /\ phase = "idle"
    /\ LET g == GlobalOf(config)
           fast == credentialsVerifiedPreviously(g.authorizationHeader)
       IN /\ global' = g
          /\ setup' = [ state |-> IF fast THEN "ok" ELSE "awaiting",
                        fresh |-> TRUE,
                        markerStored |-> g.authorizationHeader \in verified,
                        priorSuccess |-> g.authorizationHeader \in succeeded,
                        retry |-> setup.state = "failed",
                        gets |-> IF fast THEN 0 ELSE 1,
                        outcome |-> NoOutcome,
                        error |-> "none" ]
          /\ succeeded' = IF fast THEN succeeded \cup {g.authorizationHeader}
                          ELSE succeeded
    /\ UNCHANGED <<cacheRun, history, fetchCall, config, verified, customerStatus, phase, exportError, slots>>

\* The credential-check GET settles: callCustomerIoApi returns or throws;
\* on return the marker is stored and setupPlugin completes.
SetupResponse ==
    /\ setup.state = "awaiting"
    /\ \E outcome \in FetchOutcomes :
          LET r == callCustomerIoApi(outcome)
          IN /\ verified' = VerifiedAfterCheck(verified, global.authorizationHeader, r)
             /\ IF r = "response"
                THEN /\ succeeded' = succeeded \cup {global.authorizationHeader}
                     /\ setup' = [setup EXCEPT !.state = "ok", !.outcome = outcome]
                ELSE /\ setup' = [setup EXCEPT !.state = "failed",
                                               !.outcome = outcome, !.error = r]
                     /\ UNCHANGED succeeded
    /\ UNCHANGED <<cacheRun, history, fetchCall, config, global, customerStatus, phase, exportError, slots>>

\* The host starts a fresh plugin instance (process restart or reload): the
\* in-memory globals and tasks are gone, the storage is kept.
Restart ==
    /\ setup.state \in {"ok", "failed"}
    /\ phase = "idle"
    /\ global' = EmptyGlobal
    /\ setup' = NoSetup
    /\ phase' = "idle"
    /\ exportError' = "none"
    /\ slots' = <<>>
    /\ UNCHANGED <<cacheRun, history, fetchCall, config, verified, customerStatus, succeeded>>

\* The host reloads the plugin with other credentials (the user edited the
\* site ID or token): a fresh instance, the storage is kept.
Reconfigure ==
    /\ setup.state \in {"ok", "failed"}
    /\ phase = "idle"
    /\ \E cred \in Credentials \ {config.credentials} :
          config' = [config EXCEPT !.credentials = cred]
    /\ global' = EmptyGlobal
    /\ setup' = NoSetup
    /\ UNCHANGED <<cacheRun, history, fetchCall, verified, customerStatus, succeeded, phase,
                   exportError, slots>>

(***************************************************************************)
(* Email extraction                                                        *)
(***************************************************************************)

\* JavaScript null.
Null == "null"

\* isEmail: the regular expression's verdict on the texts of this model.
\* "a@b.com" and "u@x.io" match it (local part, @, dotted domain ending in
\* two or more letters); "u1", "not-an-email" and "" have no @ and do not.
isEmail(text) == text \in {"a@b.com", "u@x.io"}

\* getEmailFromEvent: null unless $set is an object with a truthy email;
\* then $set.email if valid, else distinct_id if valid, else null.
getEmailFromEvent(ev) ==
    IF ~ev.set.defined \/ ev.set.email = "" THEN Null
    ELSE IF isEmail(ev.set.email) THEN ev.set.email
    ELSE IF isEmail(ev.distinct_id) THEN ev.distinct_id
    ELSE Null

(***************************************************************************)
(* syncCustomerMetadata                                                    *)
(***************************************************************************)

\* Faulty variant: 'seen' is added only to a status that was empty.
UpdatedStatusSeenOnce(ev, statusRead) ==
    statusRead
        \cup (IF ev.event = "$identify" THEN {"identified"}
              ELSE IF getEmailFromEvent(ev) # Null THEN {"with_email"}
              ELSE {"seen"})

\* The status set after the three conditional add() calls (lines 173-179),
\* from the status array that storage.get returned.
UpdatedStatus(ev, statusRead) ==
    statusRead \cup {"seen"}
        \cup (IF ev.event = "$identify" THEN {"identified"} ELSE {})
        \cup (IF getEmailFromEvent(ev) # Null THEN {"with_email"} ELSE {})

\* Faulty variant: the status is written back whether it grew or not.
StatusAlwaysGrew(ev, statusRead) == TRUE

\* Faulty variant: the grown status is never written back.
StatusNeverGrew(ev, statusRead) == FALSE

\* customerStatus.size > customerStatusArray.length
StatusGrew(ev, statusRead) ==
    Cardinality(UpdatedStatus(ev, statusRead)) > Cardinality(statusRead)

\* Faulty variant: a set that merges into what is stored.
StoredAfterSetMerging(stored, written) == stored \cup written

\* What storage.set(customerStatusKey, Array.from(customerStatus)) leaves
\* under the key: the caller's array replaces whatever is stored.
StoredAfterSet(stored, written) == written

\* The Customer that syncCustomerMetadata returns for a slot.
CustomerOf(slot) ==
    [ status |-> UpdatedStatus(slot.ev, slot.read),
      existsAlready |-> "seen" \in slot.read,
      email |-> getEmailFromEvent(slot.ev) ]

(***************************************************************************)
(* Filters of exportEvents                                                 *)
(***************************************************************************)

Range(seq) == {seq[i] : i \in DOMAIN seq}

\* Faulty variant: the allow-list is ignored.
PassesNameFilterIgnoringList(eventNames, ev) == TRUE

\* global.eventNames.length === 0 || global.eventNames.includes(event.event)
PassesNameFilter(eventNames, ev) ==
    Len(eventNames) = 0 \/ ev.event \in Range(eventNames)

\* Faulty variant: alias events are kept.
PassesAliasFilterKeepingAlias(ev) == TRUE

\* event[0].event !== '$create_alias'
PassesAliasFilter(ev) == ev.event # "$create_alias"

\* Faulty variant: the default branch does not throw.
shouldCustomerBeTrackedNeverThrows(eventsConfig) == FALSE

\* shouldCustomerBeTracked reaches its default branch and throws.
shouldCustomerBeTrackedThrows(eventsConfig) ==
    eventsConfig \notin {SEND_ALL, SEND_EMAILS, SEND_IDENTIFIED}

\* Faulty variant: SEND_EMAILS tests the wrong flag.
shouldCustomerBeTrackedBySeen(customer, eventsConfig) ==
    CASE eventsConfig = SEND_ALL -> TRUE
      [] eventsConfig = SEND_EMAILS -> "seen" \in customer.status
      [] eventsConfig = SEND_IDENTIFIED -> "identified" \in customer.status
      [] OTHER -> FALSE

\* shouldCustomerBeTracked, for the three known policies.
shouldCustomerBeTracked(customer, eventsConfig) ==
    CASE eventsConfig = SEND_ALL -> TRUE
      [] eventsConfig = SEND_EMAILS -> "with_email" \in customer.status
      [] eventsConfig = SEND_IDENTIFIED -> "identified" \in customer.status
      [] OTHER -> FALSE

\* Where the filter chain of lines 126-148 puts one synced event.
FilterClass(slot) ==
    IF ~PassesNameFilter(global.eventNames, slot.ev) THEN "dropped_name"
    ELSE IF ~PassesAliasFilter(slot.ev) THEN "dropped_alias"
    ELSE IF ~shouldCustomerBeTracked(CustomerOf(slot), global.eventsConfig)
         THEN "dropped_policy"
    ELSE IF ~CustomerOf(slot).existsAlready THEN "create"
    ELSE "update"

\* The policy filter is evaluated for an event (it passed the two filters
\* before it) and throws.
FilterThrows ==
    \E i \in DOMAIN slots :
        /\ PassesNameFilter(global.eventNames, slots[i].ev)
        /\ PassesAliasFilter(slots[i].ev)
        /\ shouldCustomerBeTrackedThrows(global.eventsConfig)

(***************************************************************************)
(* Requests built by exportSingleEvent                                     *)
(***************************************************************************)

\* { ...base, ...over }: the keys of both, `over` winning on a shared key.
Spread(base, over) == over @@ base

\* delete obj[k] for each k of keys.
DeleteKeys(obj, keys) == [k \in DOMAIN obj \ keys |-> obj[k]]

\* A boolean as JSON.stringify writes it.
JsonBoolean(b) == IF b THEN "true" ELSE "false"

\* event.$set || {}
SetOrEmpty(ev) ==
    IF ev.set.defined
    THEN Spread(ev.set.others,
                IF ev.set.email # "" THEN "email" :> ev.set.email
                ELSE EmptyObject)
    ELSE EmptyObject

\* Lines 212-215: $set and $set_once are deleted from event.properties.
CleanedProperties(properties) ==
    IF properties.defined
    THEN [properties EXCEPT !.obj = DeleteKeys(@, {"$set", "$set_once"})]
    ELSE properties

\* Faulty variant: $set is spread last and overrides the plugin's keys.
customerPayloadSetLast(ev, customer) ==
    Spread(("_update" :> JsonBoolean(customer.existsAlready))
               @@ ("identifier" :> ev.distinct_id)
               @@ (IF customer.email # Null THEN "email" :> customer.email
                   ELSE EmptyObject),
           SetOrEmpty(ev))

\* customerPayload (lines 217-224): $set, then _update and identifier over
\* it, then email over that when one was resolved.
customerPayload(ev, customer) ==
    LET payload == Spread(SetOrEmpty(ev),
                          ("_update" :> JsonBoolean(customer.existsAlready))
                              @@ ("identifier" :> ev.distinct_id))
    IN IF customer.email # Null
       THEN Spread(payload, "email" :> customer.email)
       ELSE payload

\* `/api/v1/customers/${event.distinct_id}`, as its path segments.
CustomerPath(ev) == <<"api", "v1", "customers", ev.distinct_id>>

\* `/api/v1/customers/${event.distinct_id}/events`
CustomerEventsPath(ev) == <<"api", "v1", "customers", ev.distinct_id, "events">>

\* Faulty variant: every event is sent as a plain event.
eventTypeAlwaysEvent(name) == "event"

\* const eventType (line 229)
eventType(name) ==
    IF name = "$pageview" THEN "page"
    ELSE IF name = "$screen" THEN "screen"
    ELSE "event"

\* new Date(text).valueOf(): milliseconds since the epoch.
DateValueOf(text) == CASE text = "1970-01-01T00:16:40Z" -> 1000000

\* milliseconds / 1000: the quotient with its fractional part in thousandths.
DividedBy1000(ms) == [whole |-> ms \div 1000, thousandths |-> ms % 1000]

\* const eventTimestamp (line 230); now is what Date.now() returns.
eventTimestamp(ev, now) ==
    DividedBy1000(IF ev.timestamp # Undefined THEN DateValueOf(ev.timestamp)
                  ELSE now)

\* The body of the event-track POST (lines 233-238), from the event and its
\* properties as cleaned on entry.
trackPayload(ev, properties, now) ==
    [ name |-> ev.event,
      type |-> eventType(ev.event),
      timestamp |-> eventTimestamp(ev, now),
      data |-> IF properties.defined THEN properties.obj ELSE EmptyObject ]

\* No request issued yet.
NoRequest == [path |-> <<>>, body |-> EmptyObject]

(***************************************************************************)
(* Observer of storage writes and profile upserts                          *)
(***************************************************************************)

\* The observer, off: nothing is recorded.
NoHistory ==
    [ recording |-> FALSE,
      stored |-> [id \in DistinctIds |-> {}],
      before |-> [id \in DistinctIds |-> {}],
      upserted |-> {},
      creates |-> [id \in DistinctIds |-> 0] ]

\* exportEvents is called: the flags ever stored before this batch.
RecordBatchStart(h) ==
    IF h.recording THEN [h EXCEPT !.before = h.stored] ELSE h

\* storage.set(customerStatusKey, ...) took effect: the flags ever stored
\* under the key.
RecordStored(h, id, written) ==
    IF h.recording THEN [h EXCEPT !.stored[id] = @ \cup written] ELSE h

\* The PUTs of a stage were issued: per customer, the number of PUTs issued
\* with _update false, counted up to MaxCreates.
RecordIssued(h, ss, class) ==
    IF h.recording
    THEN [h EXCEPT !.creates =
            [id \in DistinctIds |->
                LET n == @[id] + Cardinality({i \in DOMAIN ss :
                                                /\ ss[i].class = class
                                                /\ ss[i].ev.distinct_id = id
                                                /\ "seen" \notin ss[i].read})
                IN IF n > MaxCreates THEN MaxCreates ELSE n]]
    ELSE h

\* A PUT settled: the customers a PUT has returned 2xx for.
RecordUpserted(h, id, result) ==
    IF h.recording /\ result = "response"
    THEN [h EXCEPT !.upserted = @ \cup {id}]
    ELSE h

(***************************************************************************)
(* exportEvents                                                            *)
(***************************************************************************)

Batches == UNION { [1..n -> Events] : n \in 0..MaxBatch }

\* The events delivered while the observer records: an $identify with an
\* email and a plain event without $set, of one customer.
HistoryEvents ==
    { e \in Events :
        /\ e.distinct_id = "u@x.io"
        /\ \/ e.event = "$identify" /\ e.set.email = "a@b.com"
           \/ e.event = "purchase" /\ ~e.set.defined }

HistoryBatches == UNION { [1..n -> HistoryEvents] : n \in 0..MaxBatch }

\* Batches of one event, of the events whose request bodies are examined.
PayloadBatches == [1..1 -> PayloadEvents]

NewSlot(ev) ==
    [ ev |-> ev, pc |-> "get", read |-> {}, class |-> "unfiltered",
      puts |-> 0, putOk |-> FALSE, posts |-> 0,
      properties |-> ev.properties, now |-> 0,
      putRequest |-> NoRequest, postRequest |-> NoRequest ]

InFlight(slot) == slot.pc \in {"get", "set", "put", "post"}

\* Faulty variant: a stage issues a PUT for every event of the batch.
IssuePutsToAll(ss, class) ==
    [ i \in DOMAIN ss |->
        [ss[i] EXCEPT
            !.pc = "put", !.puts = @ + 1,
            !.properties = CleanedProperties(@),
            !.putRequest =
                [ path |-> CustomerPath(ss[i].ev),
                  body |-> customerPayload(ss[i].ev, CustomerOf(ss[i])) ]] ]

\* The PUT of exportSingleEvent is issued for every event of a stage as the
\* stage's map() runs: each callback runs up to its first await, the fetch
\* of the PUT, having cleaned the properties and built the customer payload.
IssuePuts(ss, class) ==
    [ i \in DOMAIN ss |->
        IF ss[i].class = class
        THEN [ss[i] EXCEPT
                !.pc = "put", !.puts = @ + 1,
                !.properties = CleanedProperties(@),
                !.putRequest =
                    [ path |-> CustomerPath(ss[i].ev),
                      body |-> customerPayload(ss[i].ev, CustomerOf(ss[i])) ]]
        ELSE ss[i] ]

\* Faulty variant: a stage is not awaited.
StageNotAwaited(ss, class) == TRUE

\* `await Promise.all(...)` of a stage resolves: every exportSingleEvent of
\* the stage has resolved.
StageDone(ss, class) ==
    \A i \in DOMAIN ss : ss[i].class = class => ss[i].pc = "done"

\* The host calls exportEvents(events, meta): the guard, the empty-batch
\* return, and the start of one syncCustomerMetadata per event up to its
\* storage.get.
ExportEventsOf(batches) ==
    /\ setup.state \in {"ok", "failed"}
    /\ phase = "idle"
    /\ \E batch \in batches :
          IF ~global.hasEventNames
          THEN /\ phase' = "thrown"
               /\ exportError' = "RetryError"
               /\ slots' = <<>>
          ELSE IF Len(batch) = 0
          THEN /\ phase' = "returned"
               /\ exportError' = "none"
               /\ slots' = <<>>
          ELSE /\ phase' = "syncing"
               /\ exportError' = "none"
               /\ slots' = [i \in DOMAIN batch |-> NewSlot(batch[i])]
    /\ setup' = [NoSetup EXCEPT !.state = setup.state]
    /\ history' = RecordBatchStart(history)
    /\ UNCHANGED <<cacheRun, fetchCall, config, global, verified, customerStatus, succeeded>>

\* The host delivers a batch of up to MaxBatch events.
ExportEvents == ExportEventsOf(Batches)

\* The host delivers a batch of the events of the recorded runs.
ExportHistoryEvents == ExportEventsOf(HistoryBatches)

\* The host delivers one of the events whose request bodies are examined.
ExportPayloadEvent == ExportEventsOf(PayloadBatches)

\* The call has settled (returned or thrown) and none of its requests is
\* still in flight: the host is done with the batch and may deliver the next.
Settled ==
    /\ phase \in {"returned", "thrown"}
    /\ \A i \in DOMAIN slots : ~InFlight(slots[i])
    /\ phase' = "idle"
    /\ exportError' = "none"
    /\ slots' = <<>>
    /\ UNCHANGED <<cacheRun, history, fetchCall, config, global, verified, customerStatus, setup, succeeded>>

\* storage.get of one event's syncCustomerMetadata takes effect; the status
\* is updated in memory and, if it grew, storage.set is issued.
SyncRead(i) ==
    /\ phase = "syncing"
    /\ slots[i].pc = "get"
    /\ LET statusRead == customerStatus[slots[i].ev.distinct_id]
       IN slots' = [slots EXCEPT
                      ![i].read = statusRead,
                      ![i].pc = IF StatusGrew(slots[i].ev, statusRead)
                                THEN "set" ELSE "synced"]
    /\ UNCHANGED <<cacheRun, history, fetchCall, config, global, verified, customerStatus, setup, succeeded,
                   phase, exportError>>

\* storage.set of one event's syncCustomerMetadata takes effect.
SyncWrite(i) ==
    /\ phase = "syncing"
    /\ slots[i].pc = "set"
    /\ LET id == slots[i].ev.distinct_id
       IN customerStatus' =
              [customerStatus EXCEPT
                 ![id] = StoredAfterSet(@, UpdatedStatus(slots[i].ev, slots[i].read))]
    /\ slots' = [slots EXCEPT ![i].pc = "synced"]
    /\ history' = RecordStored(history, slots[i].ev.distinct_id,
                               UpdatedStatus(slots[i].ev, slots[i].read))
    /\ UNCHANGED <<cacheRun, fetchCall, config, global, verified, setup, succeeded, phase,
                   exportError>>

\* Promise.all of the syncs has resolved: the three filters, the count, the
\* split in two stages and the start of the create stage (lines 126-154).
Filter ==
    /\ phase = "syncing"
    /\ \A i \in DOMAIN slots : slots[i].pc = "synced"
    /\ IF FilterThrows
       THEN /\ phase' = "thrown"
            /\ exportError' = "Error"
            /\ slots' = slots
            /\ UNCHANGED history
       ELSE LET classed == [i \in DOMAIN slots |->
                               [slots[i] EXCEPT !.class = FilterClass(slots[i]),
                                                !.pc = FilterClass(slots[i])]]
                passed == {i \in DOMAIN classed :
                              classed[i].class \in {"create", "update"}}
            IN IF passed = {}
               THEN /\ phase' = "returned"
                    /\ slots' = classed
                    /\ UNCHANGED <<exportError, history>>
               ELSE /\ phase' = "create"
                    /\ slots' = IssuePuts(classed, "create")
                    /\ history' = RecordIssued(history, classed, "create")
                    /\ UNCHANGED exportError
    /\ UNCHANGED <<cacheRun, fetchCall, config, global, verified, customerStatus, setup, succeeded>>

\* The create stage's Promise.all has resolved: the update stage starts.
StartUpdate ==
    /\ phase = "create"
    /\ StageDone(slots, "create")
    /\ phase' = "update"
    /\ slots' = IssuePuts(slots, "update")
    /\ history' = RecordIssued(history, slots, "update")
    /\ UNCHANGED <<cacheRun, fetchCall, config, global, verified, customerStatus, setup, succeeded,
                   exportError>>

\* The update stage's Promise.all has resolved: exportEvents returns.
Return ==
    /\ phase = "update"
    /\ StageDone(slots, "update")
    /\ phase' = "returned"
    /\ UNCHANGED <<cacheRun, history, fetchCall, config, global, verified, customerStatus, setup, succeeded,
                   exportError, slots>>

(***************************************************************************)
(* exportSingleEvent                                                       *)
(***************************************************************************)

\* Faulty variant: the POST follows the PUT whatever the PUT's result.
AfterPutIgnoringFailure(result) == "post"

\* Where exportSingleEvent goes once callCustomerIoApi('PUT', ...) settled:
\* on to the POST, or out with the error.
AfterPut(result) == IF result = "response" THEN "post" ELSE "put_failed"

\* Once callCustomerIoApi('POST', ...) settled.
AfterPost(result) == IF result = "response" THEN "done" ELSE "post_failed"

\* A rejected exportSingleEvent rejects the stage's Promise.all, and with it
\* exportEvents, unless that has already settled.
Reject(result) ==
    IF phase \in {"create", "update"}
    THEN /\ phase' = "thrown"
         /\ exportError' = result
    ELSE UNCHANGED <<phase, exportError>>

\* The clock readings Date.now() can return for an event: it is read only
\* when the event has no timestamp.
ClockReadings(ev) == IF ev.timestamp = Undefined THEN NowValues ELSE {0}

\* The response to an event's profile-upsert PUT arrives; when it is a 2xx
\* response, the track payload is built and its POST issued.
PutResponse(i) ==
    /\ slots[i].pc = "put"
    /\ \E result \in ApiResults, now \in ClockReadings(slots[i].ev) :
          LET next == AfterPut(result)
          IN /\ slots' = [slots EXCEPT
                            ![i].pc = next,
                            ![i].putOk = (result = "response"),
                            ![i].posts = IF next = "post" THEN @ + 1 ELSE @,
                            ![i].now = IF next = "post" THEN now ELSE @,
                            ![i].postRequest =
                                IF next = "post"
                                THEN [ path |-> CustomerEventsPath(slots[i].ev),
                                       body |-> trackPayload(slots[i].ev,
                                                    slots[i].properties, now) ]
                                ELSE @]
             /\ IF result = "response"
                THEN UNCHANGED <<phase, exportError>>
                ELSE Reject(result)
             /\ history' = RecordUpserted(history, slots[i].ev.distinct_id, result)
    /\ UNCHANGED <<cacheRun, fetchCall, config, global, verified, customerStatus, setup, succeeded>>

\* The response to an event's event-track POST arrives.
PostResponse(i) ==
    /\ slots[i].pc = "post"
    /\ \E result \in ApiResults :
             /\ slots' = [slots EXCEPT ![i].pc = AfterPost(result)]
             /\ IF result = "response"
                THEN UNCHANGED <<phase, exportError>>
                ELSE Reject(result)
    /\ UNCHANGED <<cacheRun, history, fetchCall, config, global, verified, customerStatus, setup, succeeded>>

(***************************************************************************)
(* fetchWithRetry (src/index.js)                                           *)
(***************************************************************************)

\* The requests the earlier versions of the plugin make through
\* fetchWithRetry: the credential check, the profile upsert, the event.
RetriedRequests ==
    { [method |-> "GET", url |-> "api/info/ip_addresses"],
      [method |-> "PUT", url |-> "customers/id"],
      [method |-> "POST", url |-> "customers/id/events"] }

\* What a call does when the retry has failed too: the version of
\* src/index.js lines 130-142 logs and returns undefined, the versions of
\* src/index.js lines 248-260 and src/unnamed/part_000 lines 95-106 throw.
GiveUpVariants == {"returns", "throws"}

NoFetchCall ==
    [ pc |-> "idle", variant |-> "returns", request |-> <<>>, isRetry |-> FALSE,
      attempts |-> 0, rejections |-> 0, result |-> NoOutcome ]

\* Faulty variant: the recursive call does not say that it is the retry.
isRetryOfRetryUnset == FALSE

\* The isRetry argument of the recursive call: (isRetry = true).
isRetryOfRetry == TRUE

\* fetchWithRetry(url, options, method) is called with isRetry defaulting to
\* false, and runs up to its await of fetch.
FetchWithRetry ==
    /\ fetchCall.pc \in {"idle", "returned", "gave_up"}
    /\ \E request \in RetriedRequests, variant \in GiveUpVariants :
          fetchCall' = [ pc |-> "fetching", variant |-> variant,
                         request |-> request, isRetry |-> FALSE,
                         attempts |-> 1, rejections |-> 0,
                         result |-> NoOutcome ]
    /\ UNCHANGED <<cacheRun, history, config, global, verified, customerStatus, setup,
                   succeeded, phase, exportError, slots>>

\* The awaited fetch settles.  Resolved: the response is returned.  Rejected:
\* the catch block gives up when this was the retry, and otherwise calls
\* fetchWithRetry again, which runs up to its own await of fetch.
FetchSettles ==
    /\ fetchCall.pc = "fetching"
    /\ \E outcome \in FetchOutcomes :
          IF ~outcome.rejects
          THEN fetchCall' = [fetchCall EXCEPT !.pc = "returned", !.result = outcome]
          ELSE IF fetchCall.isRetry
          THEN fetchCall' = [fetchCall EXCEPT !.pc = "gave_up",
                                              !.rejections = @ + 1]
          ELSE /\ fetchCall.attempts < MaxAttempts
               /\ fetchCall' = [fetchCall EXCEPT !.isRetry = isRetryOfRetry,
                                                 !.attempts = @ + 1,
                                                 !.rejections = @ + 1]
    /\ UNCHANGED <<cacheRun, history, config, global, verified, customerStatus, setup,
                   succeeded, phase, exportError, slots>>

(***************************************************************************)
(* The cache-based variant (src/index.js)                                  *)
(***************************************************************************)

\* The minutes the clock of the cache-based variant is followed for.
MaxMinutes == 6

\* cache.set(distinct_id, true, 60 * 5): the time to live, in minutes.
CacheTtlMinutes == 5

\* JavaScript false, as a value of an object key.
JsFalse == "false"

\* event.properties of the events delivered to the cache-based variant:
\* undefined, empty, and with the $device_id of an anonymous user.
CacheProperties ==
    { NoProperties,
      [defined |-> TRUE, obj |-> EmptyObject],
      [defined |-> TRUE, obj |-> ("$device_id" :> "u1")] }

\* The events the host delivers to the cache-based variant.
CacheEvents ==
    [ event : {"$identify", "purchase"},
      distinct_id : DistinctIds,
      set : { [defined |-> FALSE, email |-> "", others |-> EmptyObject],
              [defined |-> TRUE, email |-> "a@b.com", others |-> EmptyObject] },
      properties : CacheProperties,
      timestamp : {SomeTimestamp} ]

\* The labels of config.sendEventsFromAnonymousUsers: src/index.js has no
\* default, so 'Send all events' is a label of its own and an absent value
\* maps to undefined.
CachePolicyLabels == PolicyLabels \cup {DEFAULT_SEND_EVENTS_FROM_ANONYMOUS_USERS}

\* The globals a successful setupPlugin of src/index.js leaves (lines 20-24,
\* 46-48).
CacheGlobalOf(cfg) ==
    [ authorizationHeader |-> AuthorizationHeaderOf(cfg.credentials),
      hasEventNames |-> TRUE,
      eventNames |-> IF cfg.eventsToSend # <<>>
                     THEN filterBoolean(cfg.eventsToSend) ELSE <<>>,
      eventsConfig |-> EVENTS_CONFIG_MAP(cfg.sendEventsFromAnonymousUsers) ]

\* isAnonymousUser: properties['$device_id'] === distinct_id when the event
\* has properties; otherwise the verdict of the device-id pattern (five
\* hyphen-separated groups of 14, 14, 8, 6 and 14 word characters) on the
\* distinct_id, which none of DistinctIds matches.
isAnonymousUser(ev) ==
    IF ev.properties.defined
    THEN /\ "$device_id" \in DOMAIN ev.properties.obj
         /\ ev.properties.obj["$device_id"] = ev.distinct_id
    ELSE ev.distinct_id \notin DistinctIds

\* getEmailFromEvent of src/index.js: the distinct_id when it is an email;
\* otherwise the valid email of $set, of $set_once (no event of this model
\* has one) or of properties; otherwise false.
getEmailFromEventOrFalse(ev) ==
    IF isEmail(ev.distinct_id) THEN ev.distinct_id
    ELSE IF ev.set.defined /\ ev.set.email # "" /\ isEmail(ev.set.email)
         THEN ev.set.email
    ELSE IF /\ ev.properties.defined
            /\ "email" \in DOMAIN ev.properties.obj
            /\ isEmail(ev.properties.obj["email"])
         THEN ev.properties.obj["email"]
    ELSE JsFalse

\* const email = isIdentifyEvent && getEmailFromEvent(payload)
emailOf(ev) ==
    IF ev.event = "$identify" THEN getEmailFromEventOrFalse(ev) ELSE JsFalse

\* const shouldCreateUserForConfig (lines 88-91).
shouldCreateUserForConfig(policy, ev) ==
    \/ policy = SEND_ALL
    \/ policy = SEND_EMAILS /\ emailOf(ev) # JsFalse
    \/ policy = SEND_IDENTIFIED /\ ev.event = "$identify"

\* What fetchWithRetry returns when the retry has failed too: undefined.
NoResponse == [rejects |-> TRUE, status |-> 0, jsonBody |-> FALSE]

\* What fetchWithRetry (lines 130-142) returns for the outcomes of the fetch
\* and of its one retry: the first response there is, or undefined.
fetchWithRetryResult(first, second) ==
    IF ~first.rejects THEN first
    ELSE IF ~second.rejects THEN second
    ELSE NoResponse

\* statusOk reads res.status: on undefined it throws a TypeError.
statusOkThrows(res) == res = NoResponse

\* String(res.status)[0] === '2'
statusOk(res) == responseStatusClass(res.status) = 2

\* Faulty variant: the customer is taken to exist whatever the PUT did.
createCustomerioUserAlways(res) == TRUE

\* createCustomerioUserIfNotExists, from what fetchWithRetry returned for
\* the PUT: true for a 2xx response; false for any other, and false when
\* statusOk throws, which the catch block swallows.
createCustomerioUserIfNotExists(res) ==
    IF statusOkThrows(res) THEN FALSE ELSE statusOk(res)

\* sendEventToCustomerIo, from what fetchWithRetry returned for the POST: it
\* returns for every response, and statusOk throws on undefined.
AfterSendEvent(res) == IF statusOkThrows(res) THEN "failed" ELSE "done"

\* cache.get(distinct_id, false): true while an entry set for the customer
\* has not expired.  The cache maps a customer to the minute its entry
\* expires at, 0 when there is none.
cacheGet(cache, id, minute) == cache[id] > minute

\* No exportToCustomerio call yet, an empty cache, the clock at 0.
NoCacheRun ==
    [ minute |-> 0,
      cache |-> [id \in DistinctIds |-> 0],
      pc |-> "idle",
      ev |-> [ event |-> "", distinct_id |-> "",
               set |-> [defined |-> FALSE, email |-> "", others |-> EmptyObject],
               properties |-> NoProperties, timestamp |-> SomeTimestamp ],
      found |-> FALSE, userExists |-> FALSE,
      puts |-> 0, putOk |-> FALSE, posts |-> 0 ]

\* The variables of the storage variant, which the cache-based variant
\* leaves alone.
storageVariantVars ==
    <<verified, customerStatus, setup, succeeded, phase, exportError, slots,
      fetchCall, history>>

\* One turn of the loop of exportEvents (lines 60-73): the event is skipped
\* by the allow-list or as anonymous under SEND_IDENTIFIED; otherwise
\* exportToCustomerio runs up to its await of cache.get, or throws at line
\* 79 when the event has no properties, which the loop's catch swallows.
CacheExportEvent ==
    /\ global.hasEventNames
    /\ cacheRun.pc \in {"idle", "skipped", "done", "failed"}
    /\ \E ev \in CacheEvents :
          LET skipped ==
                  \/ /\ Len(global.eventNames) > 0
                     /\ ev.event \notin Range(global.eventNames)
                  \/ /\ global.eventsConfig = SEND_IDENTIFIED
                     /\ isAnonymousUser(ev)
          IN cacheRun' = [cacheRun EXCEPT
                            !.ev = ev,
                            !.found = FALSE, !.userExists = FALSE,
                            !.puts = 0, !.putOk = FALSE, !.posts = 0,
                            !.pc = IF skipped THEN "skipped"
                                   ELSE IF ~ev.properties.defined THEN "failed"
                                   ELSE "get"]
    /\ UNCHANGED <<config, global, storageVariantVars>>

\* cache.get has answered (line 84): the PUT is issued when the customer is
\* not cached and the event qualifies under the policy (line 93), the POST
\* when the customer is cached (line 100), nothing otherwise.
CacheGet ==
    /\ cacheRun.pc = "get"
    /\ LET hit == cacheGet(cacheRun.cache, cacheRun.ev.distinct_id, cacheRun.minute)
           create == ~hit /\ shouldCreateUserForConfig(global.eventsConfig, cacheRun.ev)
       IN cacheRun' = [cacheRun EXCEPT
                         !.found = hit,
                         !.userExists = hit,
                         !.puts = IF create THEN 1 ELSE 0,
                         !.posts = IF hit THEN 1 ELSE 0,
                         !.pc = IF create THEN "put"
                                ELSE IF hit THEN "post"
                                ELSE "done"]
    /\ UNCHANGED <<config, global, storageVariantVars>>

\* fetchWithRetry of the PUT has returned (lines 94, 117): the customer is
\* cached when the PUT succeeded.
CachePutSettles ==
    /\ cacheRun.pc = "put"
    /\ \E first \in FetchOutcomes, second \in FetchOutcomes :
          LET res == fetchWithRetryResult(first, second)
              exists == createCustomerioUserIfNotExists(res)
          IN cacheRun' = [cacheRun EXCEPT
                            !.userExists = exists,
                            !.putOk = ~statusOkThrows(res) /\ statusOk(res),
                            !.pc = IF exists THEN "set" ELSE "done"]
    /\ UNCHANGED <<config, global, storageVariantVars>>

\* cache.set(distinct_id, true, 60 * 5) has taken effect (line 96) and the
\* POST is issued (lines 100-101, 107).
CacheSet ==
    /\ cacheRun.pc = "set"
    /\ cacheRun' = [cacheRun EXCEPT
                      !.cache[cacheRun.ev.distinct_id] =
                          cacheRun.minute + CacheTtlMinutes,
                      !.posts = 1,
                      !.pc = "post"]
    /\ UNCHANGED <<config, global, storageVariantVars>>

\* fetchWithRetry of the POST has returned (lines 107-110).
CachePostSettles ==
    /\ cacheRun.pc = "post"
    /\ \E first \in FetchOutcomes, second \in FetchOutcomes :
          cacheRun' = [cacheRun EXCEPT
                         !.pc = AfterSendEvent(fetchWithRetryResult(first, second))]
    /\ UNCHANGED <<config, global, storageVariantVars>>

\* A minute passes.
CacheTick ==
    /\ cacheRun.minute < MaxMinutes
    /\ cacheRun' = [cacheRun EXCEPT !.minute = @ + 1]
    /\ UNCHANGED <<config, global, storageVariantVars>>

(***************************************************************************)
(* Specification                                                           *)
(***************************************************************************)

\* The option no line reads is left off where the payloads are not examined.
Init ==
    /\ config \in Configs
    /\ config.credentials = "site1:tokenA"
    /\ ~config.identifyByEmail
    /\ global = EmptyGlobal
    /\ verified = {}
    /\ customerStatus = [id \in DistinctIds |-> {}]
    /\ setup = NoSetup
    /\ succeeded = {}
    /\ phase = "idle"
    /\ exportError = "none"
    /\ slots = <<>>
    /\ fetchCall = NoFetchCall
    /\ history = NoHistory
    /\ cacheRun = NoCacheRun

Next ==
    \/ SetupStart
    \/ SetupResponse
    \/ Restart
    \/ ExportEvents
    \/ Settled
    \/ \E i \in DOMAIN slots : SyncRead(i)
    \/ \E i \in DOMAIN slots : SyncWrite(i)
    \/ Filter
    \/ StartUpdate
    \/ Return
    \/ \E i \in DOMAIN slots : PutResponse(i)
    \/ \E i \in DOMAIN slots : PostResponse(i)

Spec == Init /\ [][Next]_vars

\* The plugin's life without event delivery: setupPlugin calls, restarts and
\* changes of credentials.
NextSetup ==
    \/ SetupStart
    \/ SetupResponse
    \/ Restart
    \/ Reconfigure

SpecSetup == Init /\ [][NextSetup]_vars

\* The plugin exporting single events of every shape, under the policy that
\* sends all events and with no allow-list.
InitPayloads ==
    /\ config \in Configs
    /\ config.credentials = "site1:tokenA"
    /\ config.eventsToSend = <<>>
    /\ config.sendEventsFromAnonymousUsers = ""
    /\ global = EmptyGlobal
    /\ verified = {}
    /\ customerStatus = [id \in DistinctIds |-> {}]
    /\ setup = NoSetup
    /\ succeeded = {}
    /\ phase = "idle"
    /\ exportError = "none"
    /\ slots = <<>>
    /\ fetchCall = NoFetchCall
    /\ history = NoHistory
    /\ cacheRun = NoCacheRun

NextPayloads ==
    \/ SetupStart
    \/ SetupResponse
    \/ ExportPayloadEvent
    \/ Settled
    \/ \E i \in DOMAIN slots : SyncRead(i)
    \/ \E i \in DOMAIN slots : SyncWrite(i)
    \/ Filter
    \/ StartUpdate
    \/ Return
    \/ \E i \in DOMAIN slots : PutResponse(i)
    \/ \E i \in DOMAIN slots : PostResponse(i)

SpecPayloads == InitPayloads /\ [][NextPayloads]_vars

\* The plugin under the observer: every stored flag, every create call and
\* every successful upsert is recorded.
InitHistory ==
    /\ config \in Configs
    /\ config.credentials = "site1:tokenA"
    /\ config.eventsToSend = <<>>
    /\ ~config.identifyByEmail
    /\ global = EmptyGlobal
    /\ verified = {}
    /\ customerStatus = [id \in DistinctIds |-> {}]
    /\ setup = NoSetup
    /\ succeeded = {}
    /\ phase = "idle"
    /\ exportError = "none"
    /\ slots = <<>>
    /\ fetchCall = NoFetchCall
    /\ history = [NoHistory EXCEPT !.recording = TRUE]
    /\ cacheRun = NoCacheRun

NextHistory ==
    \/ SetupStart
    \/ SetupResponse
    \/ Restart
    \/ ExportHistoryEvents
    \/ Settled
    \/ \E i \in DOMAIN slots : SyncRead(i)
    \/ \E i \in DOMAIN slots : SyncWrite(i)
    \/ Filter
    \/ StartUpdate
    \/ Return
    \/ \E i \in DOMAIN slots : PutResponse(i)
    \/ \E i \in DOMAIN slots : PostResponse(i)

SpecHistory == InitHistory /\ [][NextHistory]_vars

\* fetchWithRetry of src/index.js called again and again.  Every fetch
\* settles (node-fetch resolves or rejects its promise), hence the fairness
\* of FetchSettles.
NextRetry ==
    \/ FetchWithRetry
    \/ FetchSettles

SpecRetry == Init /\ [][NextRetry]_vars /\ WF_vars(FetchSettles)

\* A step of a running exportEvents call: a storage operation takes effect,
\* a Promise.all resolves, a response arrives.
ExportStep ==
    \/ \E i \in DOMAIN slots : SyncRead(i)
    \/ \E i \in DOMAIN slots : SyncWrite(i)
    \/ Filter
    \/ StartUpdate
    \/ Return
    \/ \E i \in DOMAIN slots : PutResponse(i)
    \/ \E i \in DOMAIN slots : PostResponse(i)

\* The plugin with a storage and a network that answer: every storage
\* operation takes effect, every request settles, and the event loop runs
\* every continuation that is ready.
SpecAnswered == Init /\ [][Next]_vars /\ WF_vars(ExportStep)

\* The cache-based variant after a successful setupPlugin: events are
\* exported one after the other while the clock advances.
InitCache ==
    /\ config \in [ credentials : {"site1:tokenA"},
                    eventsToSend : EventsToSendParts,
                    sendEventsFromAnonymousUsers : CachePolicyLabels,
                    identifyByEmail : {FALSE} ]
    /\ global = CacheGlobalOf(config)
    /\ verified = {}
    /\ customerStatus = [id \in DistinctIds |-> {}]
    /\ setup = NoSetup
    /\ succeeded = {}
    /\ phase = "idle"
    /\ exportError = "none"
    /\ slots = <<>>
    /\ fetchCall = NoFetchCall
    /\ history = NoHistory
    /\ cacheRun = NoCacheRun

NextCache ==
    \/ CacheExportEvent
    \/ CacheGet
    \/ CachePutSettles
    \/ CacheSet
    \/ CachePostSettles
    \/ CacheTick

SpecCache == InitCache /\ [][NextCache]_vars

(***************************************************************************)
(* Properties                                                              *)
(***************************************************************************)

\* An outbound call was made for the event of a slot.
Dispatched(slot) == slot.puts > 0 \/ slot.posts > 0

\* The exportEvents call has settled and none of its tasks is still running.
Quiescent ==
    /\ phase \in {"returned", "thrown"}
    /\ \A i \in DOMAIN slots : ~InFlight(slots[i])

\* C1: with a non-empty allow-list, no PUT and no POST is ever issued for an
\* event whose name is not in the list; with an empty allow-list no event is
\* dropped because of its name.
C1_AllowListBlocksDispatch ==
    \A i \in DOMAIN slots :
        /\ ( /\ Len(global.eventNames) > 0
             /\ slots[i].ev.event \notin Range(global.eventNames) )
           => ~Dispatched(slots[i])
        /\ Len(global.eventNames) = 0 => slots[i].class # "dropped_name"

\* C1 witness: a batch in which one event was dropped by the allow-list while
\* another event of the same batch went through both calls.
C1_Witness ==
    \E i, j \in DOMAIN slots :
        /\ slots[i].class = "dropped_name"
        /\ slots[i].ev.event \notin Range(global.eventNames)
        /\ slots[j].pc = "done"

\* C2: no PUT and no POST is ever issued for a $create_alias event, whatever
\* the policy, the allow-list and the stored status.
C2_AliasNeverDispatched ==
    \A i \in DOMAIN slots :
        slots[i].ev.event = "$create_alias" => ~Dispatched(slots[i])

\* C2 witness: a $create_alias event that the allow-list names, of a customer
\* already seen, was filtered out while another event was sent.
C2_Witness ==
    \E i, j \in DOMAIN slots :
        /\ slots[i].ev.event = "$create_alias"
        /\ "$create_alias" \in Range(global.eventNames)
        /\ "seen" \in slots[i].read
        /\ slots[i].class = "dropped_alias"
        /\ slots[j].pc = "done"

\* C3 (as claimed): while the last setupPlugin call has failed, no event is
\* processed: an exportEvents call starts no sync (so it reads and writes no
\* status and issues no call) and never returns normally from a batch.
C3_FailedSetupBlocksExport ==
    setup.state = "failed" =>
        /\ slots = <<>>
        /\ phase \in {"idle", "thrown"}

\* C4 (as claimed): no step ever removes a flag from a stored status.
C4_StatusMonotonic ==
    [][\A id \in DistinctIds : customerStatus[id] \subseteq customerStatus'[id]]_vars

\* C5: the last storage.set wins: each set of a sync replaces the stored
\* status by that sync's own array, computed from what that sync had read,
\* whatever another sync of the same customer has stored in between.
C5_LastSetWins ==
    [][\A i \in DOMAIN slots :
          (slots[i].pc = "set" /\ i \in DOMAIN slots' /\ slots'[i].pc = "synced")
          => customerStatus'[slots[i].ev.distinct_id]
                 = UpdatedStatus(slots[i].ev, slots[i].read)]_vars

\* C5 witness: two events of one customer in one batch read the same stored
\* status, both wrote, and the stored status lacks a flag that one of the
\* two writes contained.
C5_Witness ==
    \E i, j \in DOMAIN slots :
        /\ i # j
        /\ slots[i].ev.distinct_id = slots[j].ev.distinct_id
        /\ slots[i].pc = "synced" /\ slots[j].pc = "synced"
        /\ slots[i].read = slots[j].read
        /\ StatusGrew(slots[i].ev, slots[i].read)
        /\ StatusGrew(slots[j].ev, slots[j].read)
        /\ customerStatus[slots[j].ev.distinct_id]
               = UpdatedStatus(slots[j].ev, slots[j].read)
        /\ \E flag \in {"identified", "with_email"} :
              /\ flag \in UpdatedStatus(slots[i].ev, slots[i].read)
              /\ flag \notin customerStatus[slots[i].ev.distinct_id]

\* C6: under SEND_EMAILS, an event with no resolved email whose sync read a
\* status without with_email is never dispatched.
C6_NoEmailNoDispatch ==
    \A i \in DOMAIN slots :
        ( /\ global.eventsConfig = SEND_EMAILS
          /\ getEmailFromEvent(slots[i].ev) = Null
          /\ "with_email" \notin slots[i].read )
        => ~Dispatched(slots[i])

\* C6 witness: under SEND_EMAILS such an event, of a customer seen before,
\* was dropped by the policy while another event of the batch was sent.
C6_Witness ==
    \E i, j \in DOMAIN slots :
        /\ global.eventsConfig = SEND_EMAILS
        /\ getEmailFromEvent(slots[i].ev) = Null
        /\ "seen" \in slots[i].read
        /\ "with_email" \notin slots[i].read
        /\ slots[i].class = "dropped_policy"
        /\ slots[j].pc = "done"

\* C7 (as claimed): once a call and its tasks have finished, every event that
\* passed the filters has had its PUT issued, and its POST too unless its own
\* PUT failed, whatever happened to the other events of the batch.
C7_FailuresIsolated ==
    Quiescent =>
        \A i \in DOMAIN slots :
            slots[i].class \in {"create", "update"} =>
                /\ slots[i].puts = 1
                /\ slots[i].pc # "put_failed" => slots[i].posts = 1

\* C8: per event at most one PUT and one POST; the POST is issued only after
\* the PUT has returned a 2xx response; after a failed PUT no POST is issued
\* and exportEvents has thrown.
C8_PutBeforePost ==
    \A i \in DOMAIN slots :
        /\ slots[i].puts <= 1
        /\ slots[i].posts <= 1
        /\ slots[i].posts = 1 =>
               slots[i].puts = 1 /\ slots[i].putOk /\ slots[i].pc # "put"
        /\ slots[i].pc = "put_failed" =>
               slots[i].puts = 1 /\ slots[i].posts = 0 /\ phase = "thrown"

\* C8 witness: in one batch an event's PUT failed and no POST followed,
\* while another event went through PUT and POST.
C8_Witness ==
    \E i, j \in DOMAIN slots :
        /\ slots[i].pc = "put_failed" /\ slots[i].posts = 0
        /\ slots[j].pc = "done" /\ slots[j].puts = 1 /\ slots[j].posts = 1

\* C9 (as claimed): a finished setupPlugin call that made the credential
\* check succeeded on 2xx, threw a RetryError on a transport failure, 408,
\* 429 or 5xx, and threw a non-retryable error on every other status.
C9_SetupClassification ==
    (setup.fresh /\ setup.state \in {"ok", "failed"} /\ setup.gets = 1) =>
        LET o == setup.outcome
            retryable == o.rejects \/ o.status \in {408, 429}
                            \/ o.status \div 100 = 5
            success == ~o.rejects /\ o.status \div 100 = 2
        IN /\ success => setup.state = "ok"
           /\ retryable => setup.state = "failed" /\ setup.error = "RetryError"
           /\ (~success /\ ~retryable) =>
                  setup.state = "failed" /\ setup.error # "RetryError"

\* C10: a setupPlugin call that found the marker stored under its header
\* issued no GET and succeeded; one that did not issued exactly one GET; a
\* call after a successful call with the same header issued none.
C10_FastPath ==
    (setup.fresh /\ setup.state # "none") =>
        /\ setup.markerStored => setup.gets = 0 /\ setup.state = "ok"
        /\ ~setup.markerStored => setup.gets = 1
        /\ setup.priorSuccess => setup.gets = 0 /\ setup.state = "ok"

\* C10 witness: a second setupPlugin call with credentials that an earlier
\* call had verified completed without a GET.
C10_Witness ==
    /\ setup.fresh /\ setup.state = "ok"
    /\ setup.priorSuccess /\ setup.markerStored
    /\ setup.gets = 0

\* C11: the marker is stored only by a credential check that returned 2xx,
\* and only under the header the check was made with; a setupPlugin call that
\* fails leaves the stored markers as they were, its header not among them;
\* and a setupPlugin call that follows a failed one issues the GET again.
C11_MarkerOnlyOnSuccess ==
    [][ /\ verified' # verified =>
              /\ setup.state = "awaiting" /\ setup'.state = "ok"
              /\ setup.gets = 1
              /\ ~setup'.outcome.rejects
              /\ setup'.outcome.status \div 100 = 2
              /\ verified' = verified \cup {global.authorizationHeader}
        /\ (setup.state = "awaiting" /\ setup'.state = "failed") =>
              /\ verified' = verified
              /\ global.authorizationHeader \notin verified'
        /\ (setup.state = "failed" /\ setup'.state \in {"awaiting", "ok"}) =>
              /\ global'.authorizationHeader = global.authorizationHeader
              /\ setup'.state = "awaiting"
              /\ setup'.gets = 1 ]_vars

\* C11 witness: with the marker of other credentials stored, a setupPlugin
\* call failed, the call that followed it issued the GET again and failed
\* too, and the storage still holds the other marker only.
C11_Witness ==
    /\ setup.fresh /\ setup.retry
    /\ setup.state = "failed" /\ setup.gets = 1
    /\ verified # {}
    /\ global.authorizationHeader \notin verified

\* C12 (as claimed): the email a sync resolves for its event is $set.email
\* when that is a valid email, otherwise the distinct_id when that is a valid
\* email (also when the event has no $set or $set has no email), otherwise
\* null.
C12_EmailResolution ==
    \A i \in DOMAIN slots :
        slots[i].pc # "get" =>
            CustomerOf(slots[i]).email =
                ( IF slots[i].ev.set.defined /\ isEmail(slots[i].ev.set.email)
                  THEN slots[i].ev.set.email
                  ELSE IF isEmail(slots[i].ev.distinct_id)
                       THEN slots[i].ev.distinct_id
                       ELSE Null )

\* The event of a slot reaches the policy filter: it passes the allow-list
\* and is no $create_alias.
ReachesPolicyFilter(slot) ==
    /\ PassesNameFilter(global.eventNames, slot.ev)
    /\ PassesAliasFilter(slot.ev)

\* setupPlugin has run and left a policy value that is none of the three.
UnknownPolicy ==
    /\ global.hasEventNames
    /\ global.eventsConfig \notin {SEND_ALL, SEND_EMAILS, SEND_IDENTIFIED}

\* C13 (as claimed): with an unknown policy value no event is dispatched and
\* no exportEvents call completes normally: whatever the batch, the call
\* fails with a non-retryable Error.
C13_UnknownPolicyFatal ==
    UnknownPolicy =>
        /\ \A i \in DOMAIN slots : ~Dispatched(slots[i])
        /\ phase # "returned"
        /\ phase = "thrown" => exportError = "Error"

\* C13 (amended): with an unknown policy value no event is dispatched and no
\* stage is started; a call that fails fails with a non-retryable Error; and
\* a call completes normally only for a batch none of whose events reaches
\* the policy filter (an empty batch, or every event dropped by the
\* allow-list or as $create_alias).
C13_UnknownPolicyNoDispatch ==
    UnknownPolicy =>
        /\ \A i \in DOMAIN slots : ~Dispatched(slots[i])
        /\ phase \notin {"create", "update"}
        /\ phase = "thrown" =>
               /\ exportError = "Error"
               /\ \E i \in DOMAIN slots : ReachesPolicyFilter(slots[i])
        /\ phase = "returned" =>
               \A i \in DOMAIN slots : ~ReachesPolicyFilter(slots[i])

\* C13 witness: with an unknown policy value, a batch with an event of a
\* customer already seen that reaches the policy filter made exportEvents
\* throw a non-retryable Error, and nothing was dispatched.
C13_Witness ==
    /\ UnknownPolicy
    /\ phase = "thrown" /\ exportError = "Error"
    /\ \E i \in DOMAIN slots :
          /\ ReachesPolicyFilter(slots[i])
          /\ "seen" \in slots[i].read
    /\ \A i \in DOMAIN slots : ~Dispatched(slots[i])

\* The keys of event.$set as the host delivered it.
SetKeysOf(ev) ==
    IF ev.set.defined
    THEN DOMAIN ev.set.others \cup (IF ev.set.email # "" THEN {"email"} ELSE {})
    ELSE {}

\* C14: the body of every profile-upsert PUT has every key of event.$set
\* (with $set's value, for the keys the plugin does not set itself), _update
\* equal to existsAlready, identifier equal to the distinct_id, and email
\* equal to the resolved email when one was resolved; and the PUT goes to
\* /api/v1/customers/<distinct_id>.
C14_UpsertBody ==
    \A i \in DOMAIN slots :
        slots[i].puts = 1 =>
            LET ev == slots[i].ev
                body == slots[i].putRequest.body
            IN /\ SetKeysOf(ev) \subseteq DOMAIN body
               /\ \A k \in DOMAIN ev.set.others \ {"_update", "identifier", "email"} :
                      ev.set.defined => body[k] = ev.set.others[k]
               /\ DOMAIN body \subseteq SetKeysOf(ev) \cup {"_update", "identifier", "email"}
               /\ body["_update"] = (IF "seen" \in slots[i].read THEN "true" ELSE "false")
               /\ body["identifier"] = ev.distinct_id
               /\ getEmailFromEvent(ev) # Null =>
                      body["email"] = getEmailFromEvent(ev)
               /\ slots[i].putRequest.path = <<"api", "v1", "customers", ev.distinct_id>>

\* C14 witness: an event whose $set has its own _update and identifier keys
\* and an invalid email, of a customer whose distinct_id is an email, was
\* sent: the body carries the plugin's _update and identifier, not $set's,
\* and the distinct_id as email.
C14_Witness ==
    \E i \in DOMAIN slots :
        /\ slots[i].pc = "done"
        /\ slots[i].ev.set.defined
        /\ {"_update", "identifier"} \subseteq DOMAIN slots[i].ev.set.others
        /\ slots[i].ev.set.others["_update"] # slots[i].putRequest.body["_update"]
        /\ slots[i].ev.set.others["identifier"] # slots[i].putRequest.body["identifier"]
        /\ slots[i].ev.set.email = "not-an-email"
        /\ slots[i].putRequest.body["email"] = slots[i].ev.distinct_id

\* C15: the body of every event-track POST is {name, type, timestamp, data}
\* with the event's name; type page for $pageview, screen for $screen, event
\* otherwise; timestamp the event's timestamp, or the clock's reading when
\* it has none, in seconds since the epoch; and data the received
\* properties without $set and $set_once, every other key unchanged, and
\* empty when the event has no properties.
C15_TrackBody ==
    \A i \in DOMAIN slots :
        slots[i].posts = 1 =>
            LET ev == slots[i].ev
                body == slots[i].postRequest.body
                millis == IF ev.timestamp = "1970-01-01T00:16:40Z"
                          THEN 1000 * 1000 ELSE slots[i].now
            IN /\ body.name = ev.event
               /\ body.type = ( CASE ev.event = "$pageview" -> "page"
                                  [] ev.event = "$screen" -> "screen"
                                  [] OTHER -> "event" )
               /\ body.timestamp.whole * 1000 + body.timestamp.thousandths = millis
               /\ body.timestamp.thousandths < 1000
               /\ DOMAIN body.data = DOMAIN ev.properties.obj \ {"$set", "$set_once"}
               /\ \A k \in DOMAIN body.data : body.data[k] = ev.properties.obj[k]
               /\ ~ev.properties.defined => body.data = <<>>

\* C15 witness: a $pageview without timestamp whose properties carry url,
\* $set and $set_once was tracked with the clock's reading and url alone.
C15_Witness ==
    \E i \in DOMAIN slots :
        /\ slots[i].pc = "done"
        /\ slots[i].ev.event = "$pageview"
        /\ slots[i].ev.timestamp = Undefined
        /\ slots[i].now \in NowValues
        /\ {"url", "$set", "$set_once"} \subseteq DOMAIN slots[i].ev.properties.obj
        /\ DOMAIN slots[i].postRequest.body.data = {"url"}

\* C16: a fetchWithRetry call makes one fetch attempt when the first attempt
\* resolves and two when it throws, never more; it returns the response of
\* the attempt that resolved, or gives up with no response after the second
\* failure; and every call finishes.
C16_RetryOnce ==
    /\ [](/\ fetchCall.attempts <= 2
          /\ fetchCall.pc = "fetching" =>
                 fetchCall.attempts = fetchCall.rejections + 1
          /\ fetchCall.pc = "returned" =>
                 /\ fetchCall.attempts = fetchCall.rejections + 1
                 /\ ~fetchCall.result.rejects
                 /\ fetchCall.result.status > 0
          /\ fetchCall.pc = "gave_up" =>
                 /\ fetchCall.attempts = 2 /\ fetchCall.rejections = 2
                 /\ fetchCall.result = NoOutcome)
    /\ (fetchCall.pc = "fetching" ~> fetchCall.pc \in {"returned", "gave_up"})

\* C16 witness: a call whose first attempt threw returned the response of
\* its second attempt.
C16_Witness ==
    /\ fetchCall.pc = "returned"
    /\ fetchCall.attempts = 2 /\ fetchCall.rejections = 1
    /\ fetchCall.result.status = 200

\* C17 (as claimed): the customer identifier in the paths of the PUT and the
\* POST is the resolved email when the "identify by email" option is on and
\* an email was resolved, and the distinct_id otherwise.
C17_IdentifyByEmail ==
    \A i \in DOMAIN slots :
        LET ev == slots[i].ev
            identifier == IF config.identifyByEmail /\ getEmailFromEvent(ev) # Null
                          THEN getEmailFromEvent(ev)
                          ELSE ev.distinct_id
        IN /\ slots[i].puts = 1 =>
                  slots[i].putRequest.path = <<"api", "v1", "customers", identifier>>
           /\ slots[i].posts = 1 =>
                  slots[i].postRequest.path =
                      <<"api", "v1", "customers", identifier, "events">>

\* C18 (as claimed): the stored status of a customer changes only by the
\* sync of an event that the allow-list lets through and that is no
\* $create_alias: an event dropped by those filters causes no write.
C18_DroppedEventsWriteNothing ==
    [][\A i \in DOMAIN slots :
          ( /\ slots[i].pc = "set"
            /\ i \in DOMAIN slots' /\ slots'[i].pc = "synced"
            /\ customerStatus' # customerStatus )
          => ReachesPolicyFilter(slots[i])]_vars

\* The event of a slot passed all three filters.
Passed(slot) == slot.class \in {"create", "update"}

\* C19: within a batch, no PUT or POST of an event whose customer existed
\* already is issued before both calls of every passing event whose customer
\* did not exist have completed.
C19_TwoStages ==
    \A i, j \in DOMAIN slots :
        ( /\ Passed(slots[i]) /\ "seen" \in slots[i].read
          /\ Dispatched(slots[i])
          /\ Passed(slots[j]) /\ "seen" \notin slots[j].read )
        => /\ slots[j].pc = "done"
           /\ slots[j].puts = 1 /\ slots[j].putOk
           /\ slots[j].posts = 1

\* C19 witness: the PUT of an already existing customer's event is in flight
\* after both calls of a new customer's event of the same batch completed.
C19_Witness ==
    \E i, j \in DOMAIN slots :
        /\ Passed(slots[i]) /\ "seen" \in slots[i].read
        /\ slots[i].pc = "put"
        /\ Passed(slots[j]) /\ "seen" \notin slots[j].read
        /\ slots[j].pc = "done"

\* The sync of slot i has returned, and the batch has no other event of the
\* same distinct_id.
SyncedAlone(i) ==
    /\ slots[i].pc \notin {"get", "set"}
    /\ \A j \in DOMAIN slots :
          j # i => slots[j].ev.distinct_id # slots[i].ev.distinct_id

\* C20: when an event is the only one of its distinct_id in its batch, its
\* sync returns, and leaves stored, the status it read plus seen, plus
\* identified when the event is $identify, plus with_email when an email was
\* resolved, and nothing else; existsAlready tells whether seen was in the
\* status read; no stored status has a flag other than the three.
C20_SyncResult ==
    /\ \A id \in DistinctIds : customerStatus[id] \subseteq Flags
    /\ \A i \in DOMAIN slots :
          SyncedAlone(i) =>
              LET ev == slots[i].ev
                  prior == slots[i].read
                  expected ==
                      { f \in Flags :
                          \/ f \in prior
                          \/ f = "seen"
                          \/ f = "identified" /\ ev.event = "$identify"
                          \/ f = "with_email" /\ getEmailFromEvent(ev) # Null }
              IN /\ CustomerOf(slots[i]).status = expected
                 /\ customerStatus[ev.distinct_id] = expected
                 /\ CustomerOf(slots[i]).existsAlready = ("seen" \in prior)

\* C20 witness: an $identify event with an email, alone in its batch for a
\* customer stored as seen only, left all three flags stored and was
\* returned with existsAlready true.
C20_Witness ==
    \E i \in DOMAIN slots :
        /\ SyncedAlone(i)
        /\ slots[i].read = {"seen"}
        /\ slots[i].ev.event = "$identify"
        /\ getEmailFromEvent(slots[i].ev) # Null
        /\ customerStatus[slots[i].ev.distinct_id] = Flags
        /\ CustomerOf(slots[i]).existsAlready

\* The flags an event contributes: seen, identified for $identify, with_email
\* when an email was resolved.
FlagsOf(ev) ==
    { f \in Flags :
        \/ f = "seen"
        \/ f = "identified" /\ ev.event = "$identify"
        \/ f = "with_email" /\ getEmailFromEvent(ev) # Null }

\* C21: a sync issues storage.set exactly when its event contributes a flag
\* that the status it read lacks; a stored status changes only by the
\* storage.set of a sync, and only the status of that sync's distinct_id;
\* and no step of exportEvents writes a credentials marker.
C21_WriteOnlyIfChanged ==
    [][ /\ \A i \in DOMAIN slots :
              (i \in DOMAIN slots' /\ slots[i].pc = "get" /\ slots'[i].pc # "get")
              => /\ slots'[i].pc \in {"set", "synced"}
                 /\ slots'[i].pc = "set" <=>
                        ~(FlagsOf(slots[i].ev) \subseteq slots'[i].read)
                 /\ customerStatus' = customerStatus
        /\ \A id \in DistinctIds :
              customerStatus'[id] # customerStatus[id] =>
                  \E i \in DOMAIN slots :
                      /\ slots[i].pc = "set" /\ slots[i].ev.distinct_id = id
                      /\ i \in DOMAIN slots' /\ slots'[i].pc = "synced"
                      /\ \A other \in DistinctIds \ {id} :
                             customerStatus'[other] = customerStatus[other]
        /\ phase # "idle" => verified' = verified ]_vars

\* C21 witness: the sync of an event that contributes nothing new to a
\* non-empty stored status has returned without a storage.set.
C21_Witness ==
    \E i \in DOMAIN slots :
        /\ slots[i].pc = "synced"
        /\ slots[i].read # {}
        /\ FlagsOf(slots[i].ev) \subseteq slots[i].read
        /\ customerStatus[slots[i].ev.distinct_id] = slots[i].read

\* The event of a slot has been through the filters and reached the policy
\* filter.
PolicyApplied(slot) ==
    /\ slot.class # "unfiltered"
    /\ ReachesPolicyFilter(slot)

\* The flag that lets a customer pass under the configured policy.
PolicyFlag ==
    IF global.eventsConfig = SEND_EMAILS THEN "with_email" ELSE "identified"

\* C22 (as claimed): under SEND_IDENTIFIED a $identify event passes the
\* policy filter, and under SEND_EMAILS an event with a resolved email does,
\* whatever was stored before; and once the policy's flag has been stored for
\* a customer, every event of that customer in a later batch passes.
C22_PolicyOnUpdatedStatus ==
    \A i \in DOMAIN slots :
        PolicyApplied(slots[i]) =>
            /\ ( /\ global.eventsConfig = SEND_IDENTIFIED
                 /\ slots[i].ev.event = "$identify" ) => Passed(slots[i])
            /\ ( /\ global.eventsConfig = SEND_EMAILS
                 /\ getEmailFromEvent(slots[i].ev) # Null ) => Passed(slots[i])
            /\ ( /\ global.eventsConfig \in {SEND_EMAILS, SEND_IDENTIFIED}
                 /\ PolicyFlag \in history.before[slots[i].ev.distinct_id] )
               => Passed(slots[i])

\* C23 (as claimed): a PUT whose body has _update true is issued for a
\* customer only if a PUT for that customer has returned 2xx before.
C23_UpdateOnlyAfterUpsert ==
    \A i \in DOMAIN slots :
        ( /\ slots[i].pc = "put"
          /\ slots[i].putRequest.body["_update"] = "true" )
        => slots[i].ev.distinct_id \in history.upserted

\* C24 (as claimed): over all batches, at most one PUT with _update false is
\* issued for a customer.
C24_OneCreatePerCustomer ==
    \A id \in DistinctIds : history.creates[id] <= 1

\* A Customer.io call of the batch has failed.
CallFailed ==
    \E i \in DOMAIN slots : slots[i].pc \in {"put_failed", "post_failed"}

\* What an exportEvents call has done when no call of it failed: it has not
\* thrown; once it has returned, every event that passed the filters has had
\* one PUT, answered 2xx, and then one POST, answered 2xx; no event has more
\* than one PUT or POST, a POST only after its PUT was answered 2xx, and an
\* event that did not pass has none.
ExportOutcome ==
    /\ phase = "thrown" => CallFailed
    /\ phase = "returned" =>
          \A i \in DOMAIN slots :
              Passed(slots[i]) =>
                  /\ slots[i].pc = "done"
                  /\ slots[i].puts = 1 /\ slots[i].putOk /\ slots[i].posts = 1
    /\ \A i \in DOMAIN slots :
          /\ slots[i].puts <= 1 /\ slots[i].posts <= slots[i].puts
          /\ slots[i].posts = 1 => slots[i].putOk
          /\ ~Passed(slots[i]) => ~Dispatched(slots[i])

\* An empty batch: exportEvents returns at once, with no task started and the
\* storage untouched.
EmptyBatchReturns ==
    (phase = "idle" /\ phase' = "returned") =>
        /\ slots' = <<>>
        /\ customerStatus' = customerStatus

\* An exportEvents call is running.
Exporting == phase \in {"syncing", "create", "update"}

\* C25 (as claimed): after a successful setup, a call none of whose requests
\* fails does not throw and has issued exactly one PUT and then one POST for
\* every event that passed the filters, and no call for any other event.
C25_AllOkCompletes ==
    setup.state = "ok" => ExportOutcome

\* C25 (amended): the same when the configured policy is one of the three
\* known values; every call settles, normally unless a request failed; and an
\* empty batch returns with no storage access and no call.
C25_AllOkCompletesKnownPolicy ==
    /\ []((setup.state = "ok" /\ ~UnknownPolicy) => ExportOutcome)
    /\ [][EmptyBatchReturns]_vars
    /\ (Exporting ~> phase \in {"returned", "thrown"})

\* C25 witness: after a successful setup under a known policy a batch of two
\* events of one customer has returned, one event sent with one PUT and one
\* POST and the other, dropped by the policy, with no call.
C25_Witness ==
    /\ setup.state = "ok" /\ ~UnknownPolicy
    /\ phase = "returned"
    /\ Len(slots) = 2
    /\ slots[1].ev.distinct_id = slots[2].ev.distinct_id
    /\ \E i, j \in DOMAIN slots :
          /\ Passed(slots[i]) /\ slots[i].puts = 1 /\ slots[i].posts = 1
          /\ slots[i].pc = "done"
          /\ slots[j].class = "dropped_policy" /\ ~Dispatched(slots[j])

\* C26: every stored customer status that is not empty contains 'seen',
\* whatever the interleaving of the syncs; so an event whose sync read no
\* 'seen' (existsAlready false) read an empty status: nothing was stored for
\* its customer when it read.
C26_StoredStatusHasSeen ==
    /\ \A id \in DistinctIds :
          customerStatus[id] # {} => "seen" \in customerStatus[id]
    /\ \A i \in DOMAIN slots :
          (slots[i].pc # "get" /\ ~CustomerOf(slots[i]).existsAlready)
          => slots[i].read = {}

\* C26 witness: two syncs of one customer interleaved, one that read the
\* empty status and one that read a stored status, and what is stored now
\* holds 'seen' and another flag.
C26_Witness ==
    \E i, j \in DOMAIN slots :
        /\ slots[i].ev.distinct_id = slots[j].ev.distinct_id
        /\ slots[i].pc = "synced" /\ slots[j].pc = "synced"
        /\ slots[i].read = {} /\ ~CustomerOf(slots[i]).existsAlready
        /\ slots[j].read # {} /\ CustomerOf(slots[j]).existsAlready
        /\ {"seen"} \subseteq customerStatus[slots[i].ev.distinct_id]
        /\ customerStatus[slots[i].ev.distinct_id] # {"seen"}

\* The current event of the cache-based variant does not qualify for the
\* creation of its customer under the policy: under SEND_EMAILS it is no
\* $identify event with an email, under SEND_IDENTIFIED it is no $identify
\* event.
NotQualifying ==
    \/ /\ global.eventsConfig = SEND_EMAILS
       /\ ~(cacheRun.ev.event = "$identify"
            /\ getEmailFromEventOrFalse(cacheRun.ev) # JsFalse)
    \/ /\ global.eventsConfig = SEND_IDENTIFIED
       /\ cacheRun.ev.event # "$identify"

\* C27: in the cache-based variant the event-track POST is issued for an
\* event only if its customer was found in the cache or the PUT issued for
\* this event returned 2xx; no PUT is issued when the customer was found in
\* the cache; an event of an uncached customer that does not qualify under
\* the policy gets neither call; and the cache changes only by the entry of
\* the current event's customer being set, for 5 minutes, after its PUT
\* returned 2xx.
C27_TrackGatedOnCustomer ==
    /\ [](/\ cacheRun.posts > 0 => (cacheRun.found \/ cacheRun.putOk)
          /\ cacheRun.found => cacheRun.puts = 0
          /\ (cacheRun.pc \notin {"idle", "get"} /\ ~cacheRun.found /\ NotQualifying)
             => (cacheRun.puts = 0 /\ cacheRun.posts = 0))
    /\ [][\A id \in DistinctIds :
             cacheRun'.cache[id] # cacheRun.cache[id] =>
                 /\ cacheRun.pc = "set" /\ cacheRun.putOk /\ cacheRun.puts = 1
                 /\ cacheRun.ev.distinct_id = id
                 /\ cacheRun'.cache[id] = cacheRun.minute + 5]_vars

\* C27 witness: an event of a customer found in the cache, so cached by an
\* earlier event's successful PUT, was sent with a POST and no PUT, while an
\* expired entry of the other customer is still in the cache.
C27_Witness ==
    /\ cacheRun.pc = "done"
    /\ cacheRun.found /\ cacheRun.puts = 0 /\ cacheRun.posts = 1
    /\ \E id \in DistinctIds :
          /\ id # cacheRun.ev.distinct_id
          /\ cacheRun.cache[id] > 0
          /\ ~cacheGet(cacheRun.cache, id, cacheRun.minute)

=============================================================================
